---- MODULE Spec2Model ----
(***************************************************************************)
(* Model of src/extensions/position.rs: get_collectable_token_amounts and  *)
(* get_token_svg.                                                          *)
(*                                                                         *)
(* Integers are scaled: the 128-bit type (u128) is HalfBits wide and the   *)
(* 256-bit types (ethers types::U256, alloy U256) are 2 * HalfBits wide,   *)
(* so that Q128 = 2^HalfBits sits in the middle of the word exactly as     *)
(* 2^128 sits in the middle of 256 bits.                                   *)
(***************************************************************************)
EXTENDS Integers, Sequences

\* ------------------------------------------------------------------ bounds

\* Width of the scaled u128.
HalfBits == 2

\* The position's boundary ticks are -MaxTick and MaxTick.
MaxTick == 100

\* The chain holds at most MaxBlocks blocks.
MaxBlocks == 2

\* Longest "image" string of a metadata document.
MaxStrLen == 2

WordBits == 2 * HalfBits

\* 2^256 scaled: the modulus of U256.
U256Modulus == 2 ^ WordBits

\* Q128 of the SDK (2^128), scaled.
Q128 == 2 ^ HalfBits

U128Values == 0 .. (Q128 - 1)

\* ------------------------------------------------------- integer arithmetic

\* `-` of ethers types::U256 (uint crate): overflowing_sub, then a panic when
\* the overflow flag is set.  A result is [ok, value]; ok = FALSE is the panic.
U256Sub(a, b) ==
    IF a < b THEN [ok |-> FALSE, value |-> 0]
             ELSE [ok |-> TRUE, value |-> a - b]

\* a - b - c as Rust evaluates it: (a - b) first, then - c.
U256Sub3(a, b, c) ==
    IF U256Sub(a, b).ok THEN U256Sub(U256Sub(a, b).value, c)
                        ELSE U256Sub(a, b)

\* `-` of the SDK's 256-bit type inside get_tokens_owed: wraps modulo 2^256.
WrappingSub(a, b) == (a - b) % U256Modulus

\* mul_div(a, b, denominator): floor(a * b / denominator) at full precision.
mul_div(a, b, denominator) == (a * b) \div denominator

\* get_tokens_owed of the SDK: the fees grown since the position's checkpoint.
get_tokens_owed(inside_0_last, inside_1_last, liquidity, inside_0, inside_1) ==
    << mul_div(WrappingSub(inside_0, inside_0_last), liquidity, Q128),
       mul_div(WrappingSub(inside_1, inside_1_last), liquidity, Q128) >>

\* ------------------------------------------------------------- chain state

\* The two boundary ticks a position of the model uses.
BoundaryTicks == {-MaxTick, MaxTick}

\* Pool ticks: below the lower boundary, on it, between, on the upper boundary.
CurrentTicks == {-MaxTick - 1, -MaxTick, 0, MaxTick}

GlobalValues == {5, Q128, U256Modulus - 1}
OutsideValues == {0, 5, 10}
LastValues == {0, 5}
OwedValues == {0, Q128 - 1}
LiquidityValues == {0, 1, Q128 - 1}

\* PositionsReturn: what positions(token_id) answers (the fields the function reads).
PositionsReturns(liquidities, lasts, oweds) ==
    [tick_lower : BoundaryTicks, tick_upper : BoundaryTicks,
     liquidity : liquidities,
     fee_growth_inside_0_last_x128 : lasts, fee_growth_inside_1_last_x128 : lasts,
     tokens_owed_0 : oweds, tokens_owed_1 : oweds]

\* TicksReturn: what ticks(tick) answers (the fields the function reads).
TicksReturns(outsides) ==
    [fee_growth_outside_0x128 : outsides, fee_growth_outside_1x128 : outsides]

\* The pool at one block: slot0's tick, the global accumulators, the ticks mapping.
PoolStates(ticks, globals, outsides) ==
    [tick : ticks,
     fee_growth_global_0x128 : globals, fee_growth_global_1x128 : globals,
     ticks : [BoundaryTicks -> TicksReturns(outsides)]]

\* Chain states the calculation is checked on.
CalcBlockStates ==
    [position : PositionsReturns(LiquidityValues, LastValues, OwedValues),
     pool : PoolStates(CurrentTicks, GlobalValues, OutsideValues)]

\* ---------------------------------------------- get_collectable_token_amounts

\* Branch with the second test written `tick > position.tick_upper`.
BranchOffByOne(tick, tick_lower, tick_upper) ==
    IF tick < tick_lower THEN "below"
    ELSE IF tick > tick_upper THEN "above"
    ELSE "inside"

\* The three-way split of the `if` chain.
Branch(tick, tick_lower, tick_upper) ==
    IF tick < tick_lower THEN "below"
    ELSE IF tick >= tick_upper THEN "above"
    ELSE "inside"

\* One component of the tuple the `if` chain evaluates to.
FeeGrowthInside(branch, global, outside_lower, outside_upper) ==
    CASE branch = "below" -> U256Sub(outside_lower, outside_upper)
      [] branch = "above" -> U256Sub(outside_upper, outside_lower)
      [] OTHER -> U256Sub3(global, outside_lower, outside_upper)

\* The tuple (fee_growth_inside_0x128, fee_growth_inside_1x128); a panic in
\* either component is a panic of the whole.
FeeGrowthInsidePair(position, pool) ==
    LET branch == Branch(pool.tick, position.tick_lower, position.tick_upper)
        lower == pool.ticks[position.tick_lower]
        upper == pool.ticks[position.tick_upper]
        in0 == FeeGrowthInside(branch, pool.fee_growth_global_0x128,
                               lower.fee_growth_outside_0x128,
                               upper.fee_growth_outside_0x128)
        in1 == FeeGrowthInside(branch, pool.fee_growth_global_1x128,
                               lower.fee_growth_outside_1x128,
                               upper.fee_growth_outside_1x128)
    IN  [branch |-> branch, ok |-> in0.ok /\ in1.ok,
         inside |-> IF in0.ok /\ in1.ok THEN <<in0.value, in1.value>> ELSE <<>>]

\* TokensOwed with the checkpoint and the current growth in each other's place.
TokensOwedSwapped(position, inside) ==
    get_tokens_owed(inside[1], inside[2], position.liquidity,
                    position.fee_growth_inside_0_last_x128,
                    position.fee_growth_inside_1_last_x128)

\* The call of get_tokens_owed with the position's checkpoint.
TokensOwed(position, inside) ==
    get_tokens_owed(position.fee_growth_inside_0_last_x128,
                    position.fee_growth_inside_1_last_x128,
                    position.liquidity, inside[1], inside[2])

\* CollectableAmounts with the two recorded amounts in each other's place.
AmountsSwappedRecorded(position, owed) ==
    << (position.tokens_owed_1 + owed[1]) % U256Modulus,
       (position.tokens_owed_0 + owed[2]) % U256Modulus >>

\* CollectableAmounts with the sum taken in 128 bits, without the widening.
AmountsNarrow(position, owed) ==
    << (position.tokens_owed_0 + owed[1]) % Q128,
       (position.tokens_owed_1 + owed[2]) % Q128 >>

\* The returned tuple: the recorded amounts widened to 256 bits plus the new fees.
CollectableAmounts(position, owed) ==
    << (position.tokens_owed_0 + owed[1]) % U256Modulus,
       (position.tokens_owed_1 + owed[2]) % U256Modulus >>

NoResult == [status |-> "none", amounts |-> <<>>, svg |-> <<>>, error |-> ""]

\* Everything after the second read: the value the function ends with.
Collect(position, pool) ==
    LET fgi == FeeGrowthInsidePair(position, pool)
    IN  IF fgi.ok
        THEN [status |-> "ok",
              amounts |-> CollectableAmounts(position, TokensOwed(position, fgi.inside)),
              svg |-> <<>>, error |-> ""]
        ELSE [status |-> "panic", amounts |-> <<>>, svg |-> <<>>, error |-> ""]

\* ------------------------------------------------------------------- state

VARIABLES
    chain,              \* the blocks so far, each a [position, pool]
    fn,                 \* the function called: "none", "collect", "svg"
    pc,                 \* where the call stands
    block_id,           \* the argument: {} is None, {b} is Some(b)
    position,           \* <<>> or <<the PositionsReturn of the first read>>
    readAt,             \* the block each answered round trip was evaluated at
    calls,              \* round trips issued
    failed,             \* the errors the provider answered with
    branch,             \* the branch of the `if` chain taken
    fee_growth_inside,  \* <<>> or <<fee_growth_inside_0x128, fee_growth_inside_1x128>>
    uri,                \* <<>> or <<the token URI answered>>
    result              \* what the call ended with

vars == <<chain, fn, pc, block_id, position, readAt, calls, failed, branch,
          fee_growth_inside, uri, result>>

\* ------------------------------------------------------------ get_token_svg

\* The bytes a decoded "image" string is made of: a letter, a quote, a backslash.
Alphabet == {"a", "\"", "\\"}

JsonStrings == UNION {[1 .. n -> Alphabet] : n \in 0 .. MaxStrLen}

\* serde_json values an "image" member can hold: [kind, chars], chars being
\* the text of a string or the digits of a number.
ImageValues ==
    {[kind |-> "string", chars |-> s] : s \in JsonStrings}
        \cup {[kind |-> "number", chars |-> <<"5">>],
              [kind |-> "number", chars |-> <<"1", "2">>],
              [kind |-> "null", chars |-> <<>>],
              [kind |-> "bool", chars |-> <<>>],
              [kind |-> "array", chars |-> <<>>],
              [kind |-> "object", chars |-> <<>>]}

\* Token URIs the position manager can answer with: whether the payload is
\* base64, what it parses to as JSON ("invalid": not JSON; "object": a JSON
\* object; "other": any other JSON value), and the object's "image" member.
TokenUris ==
    {[base64 |-> FALSE, json |-> "invalid", image |-> <<>>],
     [base64 |-> TRUE, json |-> "invalid", image |-> <<>>],
     [base64 |-> TRUE, json |-> "other", image |-> <<>>],
     [base64 |-> TRUE, json |-> "object", image |-> <<>>]}
        \cup {[base64 |-> TRUE, json |-> "object", image |-> <<v>>] : v \in ImageValues}

\* serde_json's escaping of a string's bytes.
RECURSIVE Escape(_)
Escape(chars) ==
    IF chars = <<>> THEN <<>>
    ELSE (IF Head(chars) \in {"\"", "\\"} THEN <<"\\", Head(chars)>> ELSE <<Head(chars)>>)
             \o Escape(Tail(chars))

\* Value::to_string: the compact JSON text of a value.
to_string(v) ==
    CASE v.kind = "string" -> <<"\"">> \o Escape(v.chars) \o <<"\"">>
      [] v.kind = "number" -> v.chars
      [] v.kind = "null" -> <<"n", "u", "l", "l">>
      [] v.kind = "bool" -> <<"t", "r", "u", "e">>
      [] v.kind = "array" -> <<"[", "]">>
      [] OTHER -> <<"{", "}">>

Panicked == [status |-> "panic", amounts |-> <<>>, svg |-> <<>>, error |-> ""]

Failure(e) == [status |-> "err", amounts |-> <<>>, svg |-> <<>>, error |-> e]

\* image[1..image.len() - 1]: a panic when the range starts after its end.
Unquoted(image) ==
    IF Len(image) < 2 THEN Panicked
    ELSE [status |-> "ok", amounts |-> <<>>,
          svg |-> SubSeq(image, 2, Len(image) - 1), error |-> ""]

\* Everything after the token URI is answered.
TokenSvg(doc) ==
    IF ~doc.base64 THEN Failure("DecodingError(Other)")
    ELSE IF doc.json = "invalid" THEN Failure("DecodingError(SerdeJson)")
    ELSE IF doc.json # "object" \/ doc.image = <<>> THEN Panicked
    ELSE Unquoted(to_string(doc.image[1]))

\* --------------------------------------------------------------- the calls

\* Chain states of the runs with a provider that can fail and a chain that grows.
IOBlockStates ==
    [position : {p \in PositionsReturns({1, Q128 - 1}, {0}, {0}) :
                    p.tick_lower < p.tick_upper},
     pool : PoolStates({0}, {5, U256Modulus - 1}, {0})]

\* Errors a round trip can end with.
ProviderErrors == {"ProviderError", "DecodingError", "IllegalRevert"}

BlockIds == {{}} \cup {{b} : b \in 1 .. MaxBlocks}

\* The block a round trip answered now is evaluated at: the one asked for, or
\* the latest when none was.
BlockOf(id) == IF id = {} THEN Len(chain) ELSE CHOOSE b \in id : TRUE

BlockKnown == BlockOf(block_id) \in 1 .. Len(chain)

Init ==
    /\ chain \in {<<b>> : b \in IOBlockStates}
    /\ fn = "none" /\ pc = "idle" /\ block_id = {}
    /\ position = <<>> /\ readAt = <<>> /\ calls = 0 /\ failed = <<>>
    /\ branch = "none" /\ fee_growth_inside = <<>> /\ uri = <<>>
    /\ result = NoResult

\* The chain produces a block.
NewBlock ==
    /\ Len(chain) < MaxBlocks
    /\ \E b \in IOBlockStates : chain' = Append(chain, b)
    /\ UNCHANGED <<fn, pc, block_id, position, readAt, calls, failed, branch,
                   fee_growth_inside, uri, result>>

\* get_collectable_token_amounts up to its first await: the Multicall is built
\* (unwrap: a panic for a chain id without a known Multicall address) and the
\* first batch is sent.
Call(id, supported) ==
    /\ pc = "idle"
    /\ fn' = "collect" /\ block_id' = id
    /\ IF supported
       THEN pc' = "read1" /\ calls' = 1 /\ result' = result
       ELSE pc' = "done" /\ calls' = 0 /\ result' = Panicked
    /\ UNCHANGED <<chain, position, readAt, failed, branch, fee_growth_inside, uri>>

\* The first batch is answered: positions(token_id) and factory().  The second
\* batch is sent.
Read1Ok ==
    /\ fn = "collect" /\ pc = "read1" /\ BlockKnown
    /\ position' = <<chain[BlockOf(block_id)].position>>
    /\ readAt' = Append(readAt, BlockOf(block_id))
    /\ pc' = "read2" /\ calls' = calls + 1
    /\ UNCHANGED <<chain, fn, block_id, failed, branch, fee_growth_inside, uri, result>>

\* Read1Err with the error dropped and the missing position taken as zero.
Read1ErrAsZero(e) ==
    /\ fn = "collect" /\ pc = "read1"
    /\ failed' = Append(failed, e)
    /\ position' = <<[tick_lower |-> -MaxTick, tick_upper |-> MaxTick, liquidity |-> 0,
                      fee_growth_inside_0_last_x128 |-> 0,
                      fee_growth_inside_1_last_x128 |-> 0,
                      tokens_owed_0 |-> 0, tokens_owed_1 |-> 0]>>
    /\ pc' = "read2" /\ calls' = calls + 1
    /\ UNCHANGED <<chain, fn, block_id, readAt, branch, fee_growth_inside, uri, result>>

\* The first batch fails: `?` returns the error.
Read1Err(e) ==
    /\ fn = "collect" /\ pc = "read1"
    /\ failed' = Append(failed, e)
    /\ result' = Failure(e)
    /\ pc' = "done"
    /\ UNCHANGED <<chain, fn, block_id, position, readAt, calls, branch,
                   fee_growth_inside, uri>>

\* The second batch is answered: slot0, the global accumulators and the two
\* boundary ticks; the amounts are computed and returned.
Read2Ok ==
    /\ fn = "collect" /\ pc = "read2" /\ BlockKnown
    /\ LET pool == chain[BlockOf(block_id)].pool
           fgi == FeeGrowthInsidePair(position[1], pool)
       IN  /\ branch' = fgi.branch
           /\ fee_growth_inside' = fgi.inside
           /\ result' = Collect(position[1], pool)
    /\ readAt' = Append(readAt, BlockOf(block_id))
    /\ pc' = "done"
    /\ UNCHANGED <<chain, fn, block_id, position, calls, failed, uri>>

\* The second batch fails: `?` returns the error.
Read2Err(e) ==
    /\ fn = "collect" /\ pc = "read2"
    /\ failed' = Append(failed, e)
    /\ result' = Failure(e)
    /\ pc' = "done"
    /\ UNCHANGED <<chain, fn, block_id, position, readAt, calls, branch,
                   fee_growth_inside, uri>>

\* get_token_svg up to its await: the tokenURI call is sent.
CallSvg(id) ==
    /\ pc = "idle"
    /\ fn' = "svg" /\ block_id' = id /\ pc' = "uri" /\ calls' = 1
    /\ UNCHANGED <<chain, position, readAt, failed, branch, fee_growth_inside,
                   uri, result>>

\* The tokenURI call is answered; the image is extracted and returned.
TokenUriOk(doc) ==
    /\ fn = "svg" /\ pc = "uri" /\ BlockKnown
    /\ uri' = <<doc>>
    /\ readAt' = Append(readAt, BlockOf(block_id))
    /\ result' = TokenSvg(doc)
    /\ pc' = "done"
    /\ UNCHANGED <<chain, fn, block_id, position, calls, failed, branch,
                   fee_growth_inside>>

\* The tokenURI call fails: `?` returns the error.
TokenUriErr(e) ==
    /\ fn = "svg" /\ pc = "uri"
    /\ failed' = Append(failed, e)
    /\ result' = Failure(e)
    /\ pc' = "done"
    /\ UNCHANGED <<chain, fn, block_id, position, readAt, calls, branch,
                   fee_growth_inside, uri>>

Next ==
    \/ NewBlock
    \/ \E id \in BlockIds, supported \in BOOLEAN : Call(id, supported)
    \/ Read1Ok
    \/ \E e \in ProviderErrors : Read1Err(e)
    \/ Read2Ok
    \/ \E e \in ProviderErrors : Read2Err(e)
    \/ \E id \in BlockIds : CallSvg(id)
    \/ \E doc \in TokenUris : TokenUriOk(doc)
    \/ \E e \in ProviderErrors : TokenUriErr(e)

Spec == Init /\ [][Next]_vars

\* The calculation alone: both reads answered from one block, no failure.
CalcInit ==
    /\ chain \in {<<b>> : b \in CalcBlockStates}
    /\ fn = "none" /\ pc = "idle" /\ block_id = {}
    /\ position = <<>> /\ readAt = <<>> /\ calls = 0 /\ failed = <<>>
    /\ branch = "none" /\ fee_growth_inside = <<>> /\ uri = <<>>
    /\ result = NoResult

CalcCollect ==
    /\ pc = "idle"
    /\ LET b == chain[1]
           fgi == FeeGrowthInsidePair(b.position, b.pool)
       IN  /\ position' = <<b.position>>
           /\ branch' = fgi.branch
           /\ fee_growth_inside' = fgi.inside
           /\ result' = Collect(b.position, b.pool)
    /\ fn' = "collect" /\ pc' = "done" /\ calls' = 2 /\ readAt' = <<1, 1>>
    /\ UNCHANGED <<chain, block_id, failed, uri>>

CalcNext == CalcCollect

CalcSpec == CalcInit /\ [][CalcNext]_vars

\* ------------------------------------------------- the calculation's claims

\* The call ran to the end of both reads and the calculation.
Computed == fn = "collect" /\ pc = "done" /\ Len(readAt) = 2

ThePosition == position[1]
ThePool == chain[readAt[2]].pool
OutsideLower == ThePool.ticks[ThePosition.tick_lower]
OutsideUpper == ThePool.ticks[ThePosition.tick_upper]

Below == ThePool.tick < ThePosition.tick_lower
Above == ThePool.tick >= ThePosition.tick_upper
Within == ThePosition.tick_lower <= ThePool.tick /\ ThePool.tick < ThePosition.tick_upper

\* The fee growth inside the specification asks for, every subtraction modulo 2^256.
WrappedInside(global, outside_lower, outside_upper) ==
    IF Below THEN (outside_lower - outside_upper) % U256Modulus
    ELSE IF Above THEN (outside_upper - outside_lower) % U256Modulus
    ELSE (global - outside_lower - outside_upper) % U256Modulus

WrappedInside0 ==
    WrappedInside(ThePool.fee_growth_global_0x128,
                  OutsideLower.fee_growth_outside_0x128,
                  OutsideUpper.fee_growth_outside_0x128)

WrappedInside1 ==
    WrappedInside(ThePool.fee_growth_global_1x128,
                  OutsideLower.fee_growth_outside_1x128,
                  OutsideUpper.fee_growth_outside_1x128)

ExactlyOneCase ==
    /\ Below \/ Above \/ Within
    /\ ~(Below /\ Above) /\ ~(Below /\ Within) /\ ~(Above /\ Within)

\* C1: with tickLower < tickUpper exactly one of the three cases applies and the
\* computed fee growth inside is, per token, outside(lower) - outside(upper) below
\* the range, outside(upper) - outside(lower) above it and
\* global - outside(lower) - outside(upper) within it, each modulo 2^256.
C1_InsideIsWrappedDifference ==
    (Computed /\ ThePosition.tick_lower < ThePosition.tick_upper) =>
        /\ ExactlyOneCase
        /\ fee_growth_inside = <<WrappedInside0, WrappedInside1>>

\* C2: the fee-growth-inside computation never fails, panics or clamps: whatever
\* the operands, also with a subtrahend larger than the minuend, the call
\* completes with the wrapped difference.
C2_SubtractionNeverPanics ==
    Computed =>
        /\ result.status = "ok"
        /\ fee_growth_inside # <<>>
        /\ fee_growth_inside[1] = WrappedInside0
        /\ fee_growth_inside[2] = WrappedInside1

\* The pool with the global accumulators and every tick's outside accumulators
\* moved by c, modulo 2^256.
Shifted(pool, c) ==
    [pool EXCEPT
        !.fee_growth_global_0x128 = (@ + c) % U256Modulus,
        !.fee_growth_global_1x128 = (@ + c) % U256Modulus,
        !.ticks = [t \in BoundaryTicks |->
            [fee_growth_outside_0x128 |->
                 (pool.ticks[t].fee_growth_outside_0x128 + c) % U256Modulus,
             fee_growth_outside_1x128 |->
                 (pool.ticks[t].fee_growth_outside_1x128 + c) % U256Modulus]]]

\* The constants the accumulators are moved by: the small ones up to 1.0, and
\* the largest that leave an outside accumulator of 10, of 5 and of 0 below 2^256.
ShiftValues ==
    (0 .. Q128) \cup {U256Modulus - 11, U256Modulus - 6, U256Modulus - 1}

\* Adding c carries none of the position's four outside accumulators past 2^256.
ShiftKeepsOrder(c) ==
    /\ OutsideLower.fee_growth_outside_0x128 + c < U256Modulus
    /\ OutsideLower.fee_growth_outside_1x128 + c < U256Modulus
    /\ OutsideUpper.fee_growth_outside_0x128 + c < U256Modulus
    /\ OutsideUpper.fee_growth_outside_1x128 + c < U256Modulus

ExpectedAmount(tokens_owed, liquidity, inside, last) ==
    tokens_owed + (liquidity * ((inside - last) % U256Modulus)) \div Q128

\* C4: each returned amount is tokensOwed + floor(liquidity * ((feeGrowthInside -
\* feeGrowthInsideLast) mod 2^256) / 2^128), the product at full precision and
\* the sum without wrapping; a growth of exactly 2^128 (1.0) over a checkpoint
\* of 0 with nothing recorded yields exactly the liquidity.
C4_AmountIsOwedPlusFloor ==
    (Computed /\ result.status = "ok") =>
        /\ result.amounts[1] =
               ExpectedAmount(ThePosition.tokens_owed_0, ThePosition.liquidity,
                              fee_growth_inside[1],
                              ThePosition.fee_growth_inside_0_last_x128)
        /\ result.amounts[2] =
               ExpectedAmount(ThePosition.tokens_owed_1, ThePosition.liquidity,
                              fee_growth_inside[2],
                              ThePosition.fee_growth_inside_1_last_x128)
        /\ (/\ fee_growth_inside[1] = Q128
            /\ ThePosition.fee_growth_inside_0_last_x128 = 0
            /\ ThePosition.tokens_owed_0 = 0)
               => result.amounts[1] = ThePosition.liquidity
        /\ (/\ fee_growth_inside[2] = Q128
            /\ ThePosition.fee_growth_inside_1_last_x128 = 0
            /\ ThePosition.tokens_owed_1 = 0)
               => result.amounts[2] = ThePosition.liquidity

\* Token 0: the growth wrapped past the checkpoint, the division leaves a
\* remainder and an amount was recorded.  Token 1: the growth of exactly 1.0.
C4_Witness ==
    /\ Computed /\ result.status = "ok"
    /\ fee_growth_inside[1] < ThePosition.fee_growth_inside_0_last_x128
    /\ (ThePosition.liquidity
          * ((fee_growth_inside[1] - ThePosition.fee_growth_inside_0_last_x128)
                % U256Modulus)) % Q128 # 0
    /\ ThePosition.tokens_owed_0 > 0
    /\ ThePosition.liquidity = Q128 - 1
    /\ fee_growth_inside[2] = Q128
    /\ ThePosition.fee_growth_inside_1_last_x128 = 0
    /\ ThePosition.tokens_owed_1 = 0
    /\ result.amounts[2] = Q128 - 1

\* What the call returns over the recorded amounts when the position's
\* liquidity is l and everything else is as read.
DeltaFor(l) ==
    LET p == [ThePosition EXCEPT !.liquidity = l]
        r == Collect(p, ThePool)
    IN  << r.amounts[1] - p.tokens_owed_0, r.amounts[2] - p.tokens_owed_1 >>

\* C7: with everything but the liquidity fixed, a larger liquidity never gives
\* a smaller owed-amount delta, for both tokens.
C7_MonotoneInLiquidity ==
    (Computed /\ result.status = "ok") =>
        \A l \in U128Values :
            /\ l >= ThePosition.liquidity =>
                   /\ DeltaFor(l)[1] >= result.amounts[1] - ThePosition.tokens_owed_0
                   /\ DeltaFor(l)[2] >= result.amounts[2] - ThePosition.tokens_owed_1
            /\ l <= ThePosition.liquidity =>
                   /\ DeltaFor(l)[1] <= result.amounts[1] - ThePosition.tokens_owed_0
                   /\ DeltaFor(l)[2] <= result.amounts[2] - ThePosition.tokens_owed_1

C7_Witness ==
    /\ Computed /\ result.status = "ok"
    /\ ThePosition.liquidity = 1
    /\ ThePosition.tokens_owed_0 > 0 /\ ThePosition.tokens_owed_1 > 0
    /\ result.amounts[1] - ThePosition.tokens_owed_0 > 0
    /\ result.amounts[2] - ThePosition.tokens_owed_1 > 0
    /\ DeltaFor(Q128 - 1)[1] > result.amounts[1] - ThePosition.tokens_owed_0
    /\ DeltaFor(Q128 - 1)[2] > result.amounts[2] - ThePosition.tokens_owed_1

\* C8: when the computed fee growth inside equals the checkpoint for both
\* tokens, the returned amounts are the recorded tokensOwed0 and tokensOwed1,
\* whatever the liquidity.
C8_ZeroDeltaReturnsRecorded ==
    (/\ Computed /\ result.status = "ok"
     /\ fee_growth_inside = << ThePosition.fee_growth_inside_0_last_x128,
                               ThePosition.fee_growth_inside_1_last_x128 >>)
        => result.amounts = << ThePosition.tokens_owed_0, ThePosition.tokens_owed_1 >>

C8_Witness ==
    /\ Computed /\ result.status = "ok"
    /\ fee_growth_inside = << ThePosition.fee_growth_inside_0_last_x128,
                              ThePosition.fee_growth_inside_1_last_x128 >>
    /\ fee_growth_inside[1] > 0
    /\ ThePosition.liquidity = Q128 - 1
    /\ ThePosition.tokens_owed_0 > 0 /\ ThePosition.tokens_owed_1 = 0

\* C10: a position with tickLower >= tickUpper is not rejected and no error is
\* reported; the outcome is the one of the below-range subtraction when
\* currentTick < tickLower and of the above-range subtraction otherwise, and
\* the in-range branch is never taken.
C10_InvertedRangeNeverInside ==
    (Computed /\ ThePosition.tick_lower >= ThePosition.tick_upper) =>
        LET lo == OutsideLower
            up == OutsideUpper
            sub0 == IF Below
                    THEN U256Sub(lo.fee_growth_outside_0x128, up.fee_growth_outside_0x128)
                    ELSE U256Sub(up.fee_growth_outside_0x128, lo.fee_growth_outside_0x128)
            sub1 == IF Below
                    THEN U256Sub(lo.fee_growth_outside_1x128, up.fee_growth_outside_1x128)
                    ELSE U256Sub(up.fee_growth_outside_1x128, lo.fee_growth_outside_1x128)
        IN  /\ result.status \in {"ok", "panic"}
            /\ branch = (IF Below THEN "below" ELSE "above")
            /\ branch # "inside"
            /\ (result.status = "ok") = (sub0.ok /\ sub1.ok)
            /\ result.status = "ok" => fee_growth_inside = <<sub0.value, sub1.value>>

C10_Witness ==
    /\ Computed /\ result.status = "ok"
    /\ ThePosition.tick_lower > ThePosition.tick_upper
    /\ ThePosition.tick_upper <= ThePool.tick /\ ThePool.tick < ThePosition.tick_lower
    /\ branch = "below"
    /\ fee_growth_inside[1] > 0 /\ fee_growth_inside[2] > 0

\* ------------------------------------------------------ the claims on the calls

\* A round trip is awaited.
Pending == IF pc \in {"read1", "read2"} THEN 1 ELSE 0

\* C5: when one of the two batched reads fails, the call ends with that very
\* error: no round trip is sent twice, none is sent after a failure, and
\* amounts are returned only when both reads were answered and are computed
\* from the values read.
C5_ReadErrorIsReturned ==
    fn = "collect" =>
        /\ calls = Len(readAt) + Len(failed) + Pending
        /\ Len(failed) <= 1
        /\ failed # <<>> =>
               /\ pc = "done"
               /\ result = Failure(failed[1])
               /\ calls = Len(readAt) + 1
        /\ result.status = "err" => failed # <<>>
        /\ result.status = "ok" =>
               /\ failed = <<>>
               /\ Len(readAt) = 2
               /\ position = <<chain[readAt[1]].position>>
               /\ result = Collect(position[1], chain[readAt[2]].pool)

C5_Witness ==
    /\ fn = "collect" /\ pc = "done"
    /\ Len(readAt) = 1 /\ failed = <<"IllegalRevert">>
    /\ result.status = "err" /\ result.error = "IllegalRevert"
    /\ calls = 2

\* C6: the position, the pool's tick and global accumulators and the two
\* boundary ticks are all read at one and the same block, whether a block is
\* named or not and whatever blocks the chain produces in between.
C6_ReadsAtOneBlock ==
    (fn = "collect" /\ Len(readAt) = 2) =>
        \E b \in 1 .. Len(chain) :
            /\ position[1] = chain[b].position
            /\ chain[readAt[2]].pool = chain[b].pool

WellFormed(doc) ==
    /\ doc.base64 /\ doc.json = "object"
    /\ doc.image # <<>> /\ doc.image[1].kind = "string"

\* C9: get_token_svg ends with an error for every malformed token URI (not
\* base64, not JSON, no "image" member, an "image" that is no string) and never
\* panics or returns a mangled string; for a well-formed one it returns the
\* image string without its surrounding quotes.
C9_MalformedMetadataIsError ==
    (fn = "svg" /\ pc = "done" /\ uri # <<>>) =>
        IF WellFormed(uri[1])
        THEN result.status = "ok" /\ result.svg = Escape(uri[1].image[1].chars)
        ELSE result.status = "err"

====
